---- MODULE Spec2Model ----
(***************************************************************************)
(* A model of lib/index.js of evt-tracer: the Span object (constructor,    *)
(* startChild, injectHeaders, addTags, log) and the Tracer facade          *)
(* (newSpan, joinSpan, clientRequest, clientResponse, serverRequest,       *)
(* serverResponse).                                                        *)
(*                                                                         *)
(* Encoding of JavaScript values.                                          *)
(*  - An object is a function whose DOMAIN is the set of its keys; a key   *)
(*    that is not in the DOMAIN reads as undefined.                        *)
(*  - An identifier string is an integer: a positive integer is a string   *)
(*    in canonical UUID form, 0 is the string "0", a negative integer is   *)
(*    any other non-empty string (malformed identifier).                   *)
(*  - uuid.v4() returns an identifier never seen before: the n-th call     *)
(*    returns Mint(n), above every identifier the environment supplies.    *)
(*  - An object that is shared by reference and written later (the tags   *)
(*    object of a span, which log puts into the record) has an identity.   *)
(*  - A failed assertion throws: the call has no effect on the program     *)
(*    state and `result` records that it did not return.                   *)
(***************************************************************************)
EXTENDS Integers, Sequences, FiniteSets, TLC

VARIABLES
    spans,      \* the Span objects constructed so far, in construction order
    minted,     \* number of identifiers uuid.v4() has returned
    sink,       \* records handed to logger.info, oldest first
    hdr,        \* the header mapping of the outbound request being prepared
    hdrBy,      \* the span that last ran injectHeaders on hdr (0: none)
    result,     \* the last call: its name, its span, what it returned
    reads       \* the calls of a wrapped client read: span, position, cb runs

vars == <<spans, minted, sink, hdr, hdrBy, result, reads>>

\* ------------------------------------------------------------------ bounds
MaxSpans == 2
MaxSink == 2
NumExt == 2

\* ------------------------------------------------------------- identifiers
Sentinel == 0

IsUuid(x) == x > 0

ExtUuids == 1..NumExt

Mint(n) == NumExt + n

Has(o, k) == k \in DOMAIN o

EmptyObj == [k \in {} |-> 0]

\* assert.optionalUuid(o[k]): undefined passes, anything else must be a UUID
OptionalUuid(o, k) == Has(o, k) => IsUuid(o[k])

\* assert.uuid(o[k])
AssertUuid(o, k) == Has(o, k) /\ IsUuid(o[k])

\* opts.parent_span_id !== '0'
ParentNotZero(opts) == ~(Has(opts, "parent_span_id") /\ opts.parent_span_id = Sentinel)

\* ------------------------------------------------------------------- Span
\* The assertions of the constructor: those on opts (lines 46-53) and those
\* on the finished object (lines 70-76).
SpanAsserts(opts) ==
    /\ Has(opts, "logger")
    /\ Has(opts, "operation")
    /\ (ParentNotZero(opts) => OptionalUuid(opts, "parent_span_id"))
    /\ OptionalUuid(opts, "span_id")
    /\ OptionalUuid(opts, "trace_id")
    \* self.parent_span_id is opts.parent_span_id || "0"
    /\ (ParentNotZero(opts) => AssertUuid(opts, "parent_span_id"))

\* self.creator: true exactly when no span_id was given
IsCreatorAlways(opts) == TRUE

IsCreator(opts) == ~Has(opts, "span_id")

\* uuid.v4() calls made by the constructor
SpanMints(opts) ==
    (IF Has(opts, "span_id") THEN 0 ELSE 1) + (IF Has(opts, "trace_id") THEN 0 ELSE 1)

\* The object the constructor builds when n identifiers were minted before.
SpanCtor(opts, n) ==
    [ creator        |-> IsCreator(opts),
      finished       |-> FALSE,
      logger         |-> opts.logger,
      operation      |-> opts.operation,
      parent_span_id |-> IF Has(opts, "parent_span_id") THEN opts.parent_span_id
                         ELSE Sentinel,
      span_id        |-> IF Has(opts, "span_id") THEN opts.span_id ELSE Mint(n + 1),
      tags           |-> EmptyObj,
      tagsObj        |-> 0,
      trace_id       |-> IF Has(opts, "trace_id") THEN opts.trace_id
                         ELSE Mint(n + 1 + (IF Has(opts, "span_id") THEN 0 ELSE 1)) ]

\* startChild: the assertions on its argument, and the opts it constructs with
StartChildAsserts(opts) == Has(opts, "operation")

StartChildOptsGrandparent(self, opts) ==
    [ logger         |-> self.logger,
      operation      |-> opts.operation,
      parent_span_id |-> self.parent_span_id,
      trace_id       |-> self.trace_id ]

StartChildOptsNewTrace(self, opts) ==
    [ logger         |-> self.logger,
      operation      |-> opts.operation,
      parent_span_id |-> self.span_id ]

StartChildOpts(self, opts) ==
    [ logger         |-> self.logger,
      operation      |-> opts.operation,
      parent_span_id |-> self.span_id,
      trace_id       |-> self.trace_id ]

\* injectHeaders: the header mapping after the three writes
InjectedHeadersSwapped(self, h) ==
    [k \in DOMAIN h \cup {"x-span-id", "x-parent-span-id", "x-request-id"} |->
        CASE k = "x-span-id"        -> self.parent_span_id
          [] k = "x-parent-span-id" -> self.span_id
          [] k = "x-request-id"     -> self.trace_id
          [] OTHER                  -> h[k]]

InjectedHeadersOnly(self, h) ==
    [k \in {"x-span-id", "x-parent-span-id", "x-request-id"} |->
        CASE k = "x-span-id"        -> self.span_id
          [] k = "x-parent-span-id" -> self.parent_span_id
          [] k = "x-request-id"     -> self.trace_id]

InjectedHeaders(self, h) ==
    [k \in DOMAIN h \cup {"x-span-id", "x-parent-span-id", "x-request-id"} |->
        CASE k = "x-span-id"        -> self.span_id
          [] k = "x-parent-span-id" -> self.parent_span_id
          [] k = "x-request-id"     -> self.trace_id
          [] OTHER                  -> h[k]]

\* addTags: the guard, and the tag set after the merge loop
AddTagsAssertsNone(self) == TRUE

AddTagsAsserts(self) == self.finished = FALSE

MergedTagsFirstWins(old, new) ==
    [k \in DOMAIN old \cup DOMAIN new |-> IF k \in DOMAIN old THEN old[k] ELSE new[k]]

MergedTags(old, new) ==
    [k \in DOMAIN old \cup DOMAIN new |-> IF k \in DOMAIN new THEN new[k] ELSE old[k]]

\* log: the guard, the record built, and the span afterwards
LogAssertsNoGuard(self, a) == Has(a, "name")

LogAsserts(self, a) ==
    /\ self.finished = FALSE
    /\ Has(a, "name")

\* the truthiness of the `end` argument
EndArg(a) == Has(a, "end") /\ a.end

LogEndFieldAnySpan(self, a) == EndArg(a)

LogEndField(self, a) == EndArg(a) /\ self.creator

LogEvt(self, a) ==
    [ kind           |-> a.name,
      operation      |-> self.operation,
      parent_span_id |-> self.parent_span_id,
      span_id        |-> self.span_id,
      trace_id       |-> self.trace_id,
      tags           |-> self.tags ]
    @@ (IF LogEndField(self, a) THEN [end |-> TRUE] ELSE EmptyObj)

LogFinishedNever(self, a) == self.finished

LogFinished(self, a) == IF EndArg(a) THEN TRUE ELSE self.finished

LogTagsKept(self) == self.tags

LogTags(self) == EmptyObj

\* The object self.tags is bound to: tagsObj numbers the tag objects a span
\* has held. `self.tags = {}` binds a new object, so the one the record was
\* given is no longer the span's.
NewTagsObjSame(self) == self.tagsObj

NewTagsObj(self) == self.tagsObj + 1

LoggedSpan(self, a) ==
    [self EXCEPT !.finished = LogFinished(self, a), !.tags = LogTags(self),
                 !.tagsObj = NewTagsObj(self)]

\* what logger.info is handed by span number s: the record, whose tags member
\* is the object self.tags is bound to at the call (evt.tags = self.tags)
Emitted(s, self, a) == [by |-> s, evt |-> LogEvt(self, a), obj |-> self.tagsObj]

\* the merge loop of addTags writes into the object self.tags is bound to:
\* every record handed out with that same object sees the writes
TagWrites(q, s, self, tags) ==
    [i \in DOMAIN q |->
        IF q[i].by = s /\ q[i].obj = self.tagsObj
        THEN [q[i] EXCEPT !.evt.tags = MergedTags(@, tags)]
        ELSE q[i]]

\* ----------------------------------------------------------------- Tracer
\* joinSpan: its own assertions, made before the constructor runs
JoinSpanAssertsParentOnly(opts) ==
    ParentNotZero(opts) => AssertUuid(opts, "parent_span_id")

JoinSpanAsserts(opts) ==
    /\ (ParentNotZero(opts) => AssertUuid(opts, "parent_span_id"))
    /\ AssertUuid(opts, "trace_id")

\* clientRequest: the assertions on opts (tags is always an object here)
ClientRequestAsserts(opts) ==
    /\ Has(opts, "headers")
    /\ Has(opts, "operation")

\* the opts clientRequest hands to Tracer.newSpan when it has no span;
\* logger: opts.logger leaves the key undefined when opts has no logger
ClientRootOpts(opts) ==
    [operation |-> opts.operation]
    @@ (IF Has(opts, "logger") THEN [logger |-> opts.logger] ELSE EmptyObj)

\* clientResponse, serverResponse: the `end` they pass to log
ResponseEndAlways(opts) == TRUE

ResponseEndNever(opts) == FALSE

ResponseEnd(opts) == ~(Has(opts, "continue") /\ opts.continue)

ResponseLogArgs(kind, opts) == [name |-> kind, end |-> ResponseEnd(opts)]

\* serverRequest: the assertions on opts, and the opts it hands to joinSpan
ServerRequestAsserts(opts) ==
    /\ Has(opts, "logger")
    /\ Has(opts, "operation")
    /\ Has(opts, "req")

ServerJoinOptsNoDefault(opts) ==
    [ logger    |-> opts.logger,
      operation |-> opts.operation ]
    @@ (IF Has(opts.req.headers, "x-parent-span-id")
        THEN [parent_span_id |-> opts.req.headers["x-parent-span-id"]] ELSE EmptyObj)
    @@ (IF Has(opts.req.headers, "x-span-id")
        THEN [span_id |-> opts.req.headers["x-span-id"]] ELSE EmptyObj)
    @@ (IF Has(opts.req, "id") THEN [trace_id |-> opts.req.id] ELSE EmptyObj)

ServerJoinOpts(opts) ==
    [ logger         |-> opts.logger,
      operation      |-> opts.operation,
      parent_span_id |-> IF Has(opts.req.headers, "x-parent-span-id")
                         THEN opts.req.headers["x-parent-span-id"] ELSE Sentinel ]
    @@ (IF Has(opts.req.headers, "x-span-id")
        THEN [span_id |-> opts.req.headers["x-span-id"]] ELSE EmptyObj)
    @@ (IF Has(opts.req, "id") THEN [trace_id |-> opts.req.id] ELSE EmptyObj)

\* The inbound request a peer sees when it is sent header mapping h: the
\* request-correlation id (req.getId()) is the x-request-id header.
ReqOf(h) ==
    [headers |-> h]
    @@ (IF Has(h, "x-request-id") THEN [id |-> h["x-request-id"]] ELSE EmptyObj)

\* traceRestifyRead: the assertions of the wrapped read on its opts, the
\* arguments it gives clientRequest (the strings here are shorter than the 80
\* characters substr keeps), and the tags its callback gives clientResponse
TracedReadAsserts(ropts) ==
    /\ Has(ropts, "method")
    /\ Has(ropts, "path")
    /\ Has(ropts, "href")

TracedReadOpts(ropts) ==
    [operation |-> "restifyclient." \o ropts.method]
    @@ (IF Has(ropts, "headers") THEN [headers |-> ropts.headers] ELSE EmptyObj)

TracedReadTags(ropts) ==
    ("http.method" :> ropts.method) @@ ("http.path" :> ropts.path)
    @@ ("http.url" :> ropts.href)

TracedCbTags(res) ==
    (IF res.err THEN [error |-> TRUE] ELSE EmptyObj)
    @@ (IF Has(res, "code") THEN ("http.statusCode" :> res.code) ELSE EmptyObj)

\* ------------------------------------------------------------------ inputs
\* a key that is absent, or present with one of the values of S
Opt(k, S) == {EmptyObj} \cup {[x \in {k} |-> v] : v \in S}

ResponseOptsIn == {EmptyObj, [continue |-> FALSE], [continue |-> TRUE]}

\* arguments of clientRequest; opts.headers, when given, is the mapping hdr
ClientOptsIn ==
    {[headers |-> "hdr", operation |-> "opC", logger |-> "log"],
     [headers |-> "hdr", operation |-> "opC"],
     [operation |-> "opC", logger |-> "log"]}

\* Inputs of the span life cycle: two ways to make a span (one that mints
\* its span_id, one that is given it), every tag and log argument.
NewOptsLife == {[logger |-> "log", operation |-> "opA", parent_span_id |-> Sentinel]}

JoinOptsLife ==
    {[logger |-> "log", operation |-> "opA", parent_span_id |-> Sentinel,
      span_id |-> 1, trace_id |-> NumExt]}

TagsLife == {[k1 |-> 1]}

LogArgsIn ==
    {[name |-> "ev"], [name |-> "ev", end |-> FALSE], [name |-> "ev", end |-> TRUE],
     [end |-> TRUE]}

\* Inputs of the header protocol: every shape of identifier in every
\* position, one tag set.
NewOptsWire ==
    {[logger |-> "log", operation |-> "opA"],
     [logger |-> "log", operation |-> "opA", parent_span_id |-> Sentinel],
     [operation |-> "opA", parent_span_id |-> Sentinel]}

JoinOptsWire ==
    {[logger |-> "log", operation |-> "opA", parent_span_id |-> Sentinel,
      span_id |-> 1, trace_id |-> NumExt],
     [logger |-> "log", operation |-> "opA", parent_span_id |-> 1,
      span_id |-> 1, trace_id |-> NumExt],
     [logger |-> "log", operation |-> "opA", parent_span_id |-> Sentinel,
      trace_id |-> NumExt],
     [logger |-> "log", operation |-> "opA", span_id |-> 1, trace_id |-> NumExt],
     [logger |-> "log", operation |-> "opA", parent_span_id |-> Sentinel, span_id |-> 1],
     [logger |-> "log", operation |-> "opA", parent_span_id |-> Sentinel,
      span_id |-> 1, trace_id |-> -1],
     [logger |-> "log", operation |-> "opA", parent_span_id |-> Sentinel,
      span_id |-> -1, trace_id |-> NumExt]}

TagsWire == {[k1 |-> 1]}

HeadersIn == {EmptyObj, [accept |-> "json"] @@ ("x-span-id" :> 1)}

\* inbound requests: the two headers absent or well formed in any combination
\* with a well-formed request id, and one request for each malformed part
ReqIn ==
    { [headers |-> a @@ b, id |-> t] :
        a \in Opt("x-parent-span-id", {Sentinel} \cup ExtUuids),
        b \in Opt("x-span-id", {1}), t \in ExtUuids }
    \cup {[headers |-> EmptyObj], [headers |-> EmptyObj, id |-> -1],
          [headers |-> ("x-span-id" :> -1), id |-> 1],
          [headers |-> ("x-span-id" :> Sentinel), id |-> 1],
          [headers |-> ("x-parent-span-id" :> -1), id |-> 1]}

\* arguments of serverRequest: any inbound request, or the one that carries
\* the header mapping h
ServerOptsIn(h) ==
    {[logger |-> "log", operation |-> "opS", req |-> r] : r \in ReqIn \cup {ReqOf(h)}}
    \cup {[operation |-> "opS", req |-> ReqOf(h)]}

\* the arguments of a serverRequest call on the request that carries hdr
PropagatedOpts == [logger |-> "log", operation |-> "opS", req |-> ReqOf(hdr)]

\* valid arguments of clientRequest
FullClientOpts == [headers |-> "hdr", operation |-> "opC", logger |-> "log"]

\* ----------------------------------------------------------------- actions
Ret(op, self, ret, ok) == [op |-> op, self |-> self, ret |-> ret, ok |-> ok]

\* an assertion failed: the call throws and nothing else changes
Throw(op, self) ==
    /\ result' = Ret(op, self, 0, FALSE)
    /\ UNCHANGED <<spans, minted, sink, hdr, hdrBy, reads>>

\* new Span(opts) succeeded: the object exists and op returns it
Construct(op, self, opts) ==
    /\ Len(spans) < MaxSpans
    /\ spans' = Append(spans, SpanCtor(opts, minted))
    /\ minted' = minted + SpanMints(opts)
    /\ result' = Ret(op, self, Len(spans) + 1, TRUE)
    /\ UNCHANGED <<sink, hdr, hdrBy, reads>>

TaggedSpan(self, tags) == [self EXCEPT !.tags = MergedTags(self.tags, tags)]

Init ==
    /\ spans = <<>>
    /\ minted = 0
    /\ sink = <<>>
    /\ hdr = EmptyObj
    /\ hdrBy = 0
    /\ result = Ret("none", 0, 0, TRUE)
    /\ reads = <<>>

\* Tracer.newSpan(opts)
NewSpan(opts) ==
    IF SpanAsserts(opts) THEN Construct("newSpan", 0, opts) ELSE Throw("newSpan", 0)

\* Tracer.joinSpan(opts)
JoinSpan(opts) ==
    IF JoinSpanAsserts(opts) /\ SpanAsserts(opts)
    THEN Construct("joinSpan", 0, opts)
    ELSE Throw("joinSpan", 0)

\* spans[s].startChild(opts)
StartChild(s, opts) ==
    IF StartChildAsserts(opts) /\ SpanAsserts(StartChildOpts(spans[s], opts))
    THEN Construct("startChild", s, StartChildOpts(spans[s], opts))
    ELSE Throw("startChild", s)

\* spans[s].injectHeaders(hdr)
InjectHeaders(s) ==
    /\ hdr' = InjectedHeaders(spans[s], hdr)
    /\ hdrBy' = s
    /\ result' = Ret("injectHeaders", s, 0, TRUE)
    /\ UNCHANGED <<spans, minted, sink, reads>>

\* spans[s].addTags(tags)
AddTags(s, tags) ==
    IF AddTagsAsserts(spans[s])
    THEN /\ spans' = [spans EXCEPT ![s] = TaggedSpan(@, tags)]
         /\ sink' = TagWrites(sink, s, spans[s], tags)
         /\ result' = Ret("addTags", s, 0, TRUE)
         /\ UNCHANGED <<minted, hdr, hdrBy, reads>>
    ELSE Throw("addTags", s)

\* spans[s].log(a.name, a.end)
Log(s, a) ==
    IF LogAsserts(spans[s], a)
    THEN /\ Len(sink) < MaxSink
         /\ sink' = Append(sink, Emitted(s, spans[s], a))
         /\ spans' = [spans EXCEPT ![s] = LoggedSpan(@, a)]
         /\ result' = Ret("log", s, 0, TRUE)
         /\ UNCHANGED <<minted, hdr, hdrBy, reads>>
    ELSE Throw("log", s)

\* Tracer.clientRequest(span, opts, tags); cur = 0 stands for a null span
ClientRequestBody(cur, opts, tags) ==
    LET copts == IF cur # 0
                 THEN StartChildOpts(spans[cur], [operation |-> opts.operation])
                 ELSE ClientRootOpts(opts)
        span0 == SpanCtor(copts, minted)
        span1 == TaggedSpan(span0, tags)
        a     == [name |-> "client.request"]
        new   == Len(spans) + 1
    IN  IF /\ ClientRequestAsserts(opts)
           /\ SpanAsserts(copts)
           /\ AddTagsAsserts(span0)
           /\ LogAsserts(span1, a)
        THEN /\ Len(spans) < MaxSpans
             /\ Len(sink) < MaxSink
             /\ spans' = Append(spans, LoggedSpan(span1, a))
             /\ minted' = minted + SpanMints(copts)
             /\ hdr' = InjectedHeaders(span0, hdr)
             /\ hdrBy' = new
             /\ sink' = Append(sink, Emitted(new, span1, a))
             /\ result' = Ret("clientRequest", cur, new, TRUE)
        ELSE Throw("clientRequest", cur)

ClientRequest(cur, opts, tags) ==
    ClientRequestBody(cur, opts, tags) /\ UNCHANGED reads

\* Tracer.clientResponse / Tracer.serverResponse (span, opts, tags)
RespondBody(op, kind, s, opts, tags) ==
    LET span1 == TaggedSpan(spans[s], tags)
        a     == ResponseLogArgs(kind, opts)
    IN  IF AddTagsAsserts(spans[s]) /\ LogAsserts(span1, a)
        THEN /\ Len(sink) < MaxSink
             /\ sink' = Append(TagWrites(sink, s, spans[s], tags), Emitted(s, span1, a))
             /\ spans' = [spans EXCEPT ![s] = LoggedSpan(span1, a)]
             /\ result' = Ret(op, s, 0, TRUE)
             /\ UNCHANGED <<minted, hdr, hdrBy>>
        ELSE Throw(op, s)

Respond(op, kind, s, opts, tags) ==
    RespondBody(op, kind, s, opts, tags) /\ UNCHANGED reads

ClientResponse(s, opts, tags) == Respond("clientResponse", "client.response", s, opts, tags)

ServerResponse(s, opts, tags) == Respond("serverResponse", "server.response", s, opts, tags)

\* Tracer.serverRequest(opts, tags)
ServerRequest(opts, tags) ==
    LET jopts == ServerJoinOpts(opts)
        span0 == SpanCtor(jopts, minted)
        span1 == TaggedSpan(span0, tags)
        a     == [name |-> "server.request"]
        new   == Len(spans) + 1
    IN  IF /\ ServerRequestAsserts(opts)
           /\ JoinSpanAsserts(jopts)
           /\ SpanAsserts(jopts)
           /\ AddTagsAsserts(span0)
           /\ LogAsserts(span1, a)
        THEN /\ Len(spans) < MaxSpans
             /\ Len(sink) < MaxSink
             /\ spans' = Append(spans, LoggedSpan(span1, a))
             /\ minted' = minted + SpanMints(jopts)
             /\ sink' = Append(sink, Emitted(new, span1, a))
             /\ result' = Ret("serverRequest", 0, new, TRUE)
             /\ UNCHANGED <<hdr, hdrBy, reads>>
        ELSE Throw("serverRequest", 0)

\* the caller starts preparing another outbound request, with headers h
NewHeaders(h) ==
    /\ hdr' = h
    /\ hdrBy' = 0
    /\ result' = Ret("newHeaders", 0, 0, TRUE)
    /\ UNCHANGED <<spans, minted, sink, reads>>

Live == 1..Len(spans)

\* The span life cycle.
NextLife ==
    \/ \E opts \in NewOptsLife : NewSpan(opts)
    \/ \E opts \in JoinOptsLife : JoinSpan(opts)
    \/ \E s \in Live : StartChild(s, [operation |-> "opB"])
    \/ \E s \in Live : InjectHeaders(s)
    \/ \E s \in Live, tags \in TagsLife : AddTags(s, tags)
    \/ \E s \in Live, a \in LogArgsIn : Log(s, a)
    \/ \E cur \in Live, tags \in TagsLife :
            ClientRequest(cur, [headers |-> "hdr", operation |-> "opC"], tags)
    \/ \E s \in Live, opts \in ResponseOptsIn, tags \in TagsLife :
            ClientResponse(s, opts, tags)
    \/ \E s \in Live, opts \in ResponseOptsIn, tags \in TagsLife :
            ServerResponse(s, opts, tags)

Spec == Init /\ [][NextLife]_vars

\* The header protocol between a client and the server it calls.
NextWire ==
    \/ \E opts \in NewOptsWire : NewSpan(opts)
    \/ \E opts \in JoinOptsWire : JoinSpan(opts)
    \/ \E s \in Live, opts \in {[operation |-> "opB"], EmptyObj} : StartChild(s, opts)
    \/ \E s \in Live : InjectHeaders(s)
    \/ \E cur \in {0} \cup Live, opts \in ClientOptsIn, tags \in TagsWire :
            ClientRequest(cur, opts, tags)
    \/ \E s \in Live : ClientResponse(s, EmptyObj, EmptyObj)
    \/ \E s \in Live : ServerResponse(s, EmptyObj, EmptyObj)
    \/ \E opts \in ServerOptsIn(hdr), tags \in TagsWire : ServerRequest(opts, tags)
    \/ \E h \in HeadersIn : NewHeaders(h)

SpecWire == Init /\ [][NextWire]_vars

\* Tags: spans that mint or are given their span_id, every merge of tags.
TagsRich == {EmptyObj, [k1 |-> 1], [k1 |-> 2, k2 |-> 1]}

NextTags ==
    \/ \E opts \in NewOptsLife : NewSpan(opts)
    \/ \E opts \in JoinOptsLife : JoinSpan(opts)
    \/ \E s \in Live, tags \in TagsRich : AddTags(s, tags)
    \/ \E s \in Live, a \in LogArgsIn : Log(s, a)
    \/ \E s \in Live, opts \in ResponseOptsIn, tags \in TagsRich :
            ClientResponse(s, opts, tags)

SpecTags == Init /\ [][NextTags]_vars

\* Making spans: newSpan and joinSpan on every shape of opts, each identifier
\* absent, "0", malformed or well formed, and opts without logger or operation.
SpanOptsAll ==
    { [logger |-> "log", operation |-> "opA"] @@ p @@ s @@ t :
        p \in Opt("parent_span_id", {Sentinel, -1, 1}),
        s \in Opt("span_id", {-1, Sentinel, 1}),
        t \in Opt("trace_id", {-1, NumExt}) }
    \cup {[operation |-> "opA", parent_span_id |-> Sentinel, trace_id |-> NumExt],
          [logger |-> "log", parent_span_id |-> Sentinel, trace_id |-> NumExt]}

NextMake ==
    \/ \E opts \in SpanOptsAll : NewSpan(opts)
    \/ \E opts \in SpanOptsAll : JoinSpan(opts)

SpecMake == Init /\ [][NextMake]_vars

\* _traceWrappedRead(ropts, cb) up to the call of the underlying read; cur is
\* the traceHandle the wrapper was made with (0: undefined)
TracedRead(cur, ropts) ==
    IF TracedReadAsserts(ropts)
    THEN /\ ClientRequestBody(cur, TracedReadOpts(ropts), TracedReadTags(ropts))
         /\ reads' = IF result'.ok
                      THEN Append(reads, [handle |-> cur, span |-> result'.ret,
                                          pc |-> "read", cbs |-> 0])
                      ELSE reads
    ELSE Throw("tracedRead", cur)

\* origRead.apply(self, [opts, _traceWrappedCb]): the underlying read is
\* invoked; from now on the client may call _traceWrappedCb
InvokeRead(r) ==
    /\ reads[r].pc = "read"
    /\ reads' = [reads EXCEPT ![r].pc = "pending"]
    /\ result' = Ret("origRead", reads[r].span, 0, TRUE)
    /\ UNCHANGED <<spans, minted, sink, hdr, hdrBy>>

\* the client calls _traceWrappedCb(err, _, res): clientResponse, and if it
\* returns the caller's callback is next
TracedCb(r, res) ==
    /\ reads[r].pc = "pending"
    /\ RespondBody("clientResponse", "client.response", reads[r].span, EmptyObj,
                   TracedCbTags(res))
    /\ reads' = IF result'.ok THEN [reads EXCEPT ![r].pc = "cb"] ELSE reads

\* cb.apply(self, arguments): the caller's callback runs
CallerCb(r) ==
    /\ reads[r].pc = "cb"
    /\ reads' = [reads EXCEPT ![r].pc = "pending", ![r].cbs = @ + 1]
    /\ result' = Ret("cb", reads[r].span, 0, TRUE)
    /\ UNCHANGED <<spans, minted, sink, hdr, hdrBy>>

\* Wrapped client reads. A function runs to completion: while a wrapper or
\* its callback is between two of its steps nothing else runs.
ReadOptsIn ==
    {[method |-> "GET", path |-> "/a", href |-> "http://h/a", headers |-> "hdr"],
     [method |-> "GET", path |-> "/a", href |-> "http://h/a"],
     [path |-> "/a", href |-> "http://h/a", headers |-> "hdr"]}

ReadResultsIn == {[err |-> FALSE, code |-> "200"], [err |-> TRUE]}

Idle == \A r \in DOMAIN reads : reads[r].pc = "pending"

NextRead ==
    \/ Idle /\ \E opts \in NewOptsLife : NewSpan(opts)
    \/ Idle /\ \E opts \in JoinOptsLife : JoinSpan(opts)
    \/ Idle /\ \E s \in Live, tags \in TagsLife : AddTags(s, tags)
    \/ Idle /\ \E cur \in {0} \cup Live, ropts \in ReadOptsIn : TracedRead(cur, ropts)
    \/ \E r \in DOMAIN reads : InvokeRead(r)
    \/ Idle /\ \E r \in DOMAIN reads, res \in ReadResultsIn : TracedCb(r, res)
    \/ \E r \in DOMAIN reads : CallerCb(r)

SpecRead == Init /\ [][NextRead]_vars

\* One trace: a root span (made by newSpan, or by serverRequest on a request
\* that carries no tracing headers), and from then on only spans derived from
\* it: children, and the spans a peer makes from the headers a span injected.
RootReq == [headers |-> EmptyObj, id |-> 1]

NextChain ==
    \/ spans = <<>> /\ \E opts \in NewOptsLife : NewSpan(opts)
    \/ spans = <<>> /\ \E tags \in TagsLife :
            ServerRequest([logger |-> "log", operation |-> "opS", req |-> RootReq], tags)
    \/ \E s \in Live : StartChild(s, [operation |-> "opB"])
    \/ \E cur \in Live, tags \in TagsLife : ClientRequest(cur, FullClientOpts, tags)
    \/ \E s \in Live : InjectHeaders(s)
    \/ hdrBy # 0 /\ \E tags \in TagsLife : ServerRequest(PropagatedOpts, tags)
    \/ \E s \in Live, a \in LogArgsIn : Log(s, a)
    \/ \E s \in Live, opts \in ResponseOptsIn, tags \in TagsLife :
            ClientResponse(s, opts, tags)
    \/ \E s \in Live, opts \in ResponseOptsIn, tags \in TagsLife :
            ServerResponse(s, opts, tags)

SpecChain == Init /\ [][NextChain]_vars

\* ============================================================= properties
Last(q) == q[Len(q)]

\* the span a returned call acted on: the one it made, else the one it was given
Emitter(r) == IF r.ret # 0 THEN r.ret ELSE r.self

\* C1: once a span is finished (a log call with end=true has completed on
\* it), every addTags and every log call on it throws, whatever its arguments.
C1_FinishedRejectsWrites ==
    [][ (/\ result'.op \in {"addTags", "log"}
         /\ spans[result'.self].finished)
        => (~result'.ok /\ spans' = spans /\ sink' = sink) ]_vars

C1_Witness ==
    /\ result.op \in {"addTags", "log"}
    /\ ~result.ok
    /\ spans[result.self].finished
    /\ ~spans[result.self].creator

\* C2: a log call that returns with end=true leaves the span finished, creator
\* or not, and its record carries end exactly when the span is the creator; a
\* log call with end false or omitted emits a record without end and leaves
\* finished as it was.
C2_EndOnlyFromCreator ==
    [][ \A s \in Live, a \in LogArgsIn :
            (Log(s, a) /\ result'.ok) =>
                /\ Last(sink').by = s
                /\ IF Has(a, "end") /\ a.end
                   THEN /\ spans'[s].finished
                        /\ Has(Last(sink').evt, "end") <=> spans[s].creator
                        /\ Has(Last(sink').evt, "end") => Last(sink').evt.end = TRUE
                   ELSE /\ ~Has(Last(sink').evt, "end")
                        /\ spans'[s].finished = spans[s].finished ]_vars

C2_Witness ==
    /\ result.op = "log"
    /\ result.ok
    /\ spans[result.self].finished
    /\ ~spans[result.self].creator
    /\ Last(sink).by = result.self
    /\ ~Has(Last(sink).evt, "end")

\* C3: in the state a successful log call (terminal or not, direct or made by
\* a Tracer routine) returns in, the span's tag set is empty.
C3_TagsDrained ==
    (result.ok /\ result.op \in {"log", "clientRequest", "clientResponse",
                                  "serverRequest", "serverResponse"})
        => spans[Emitter(result)].tags = EmptyObj

C3_Witness ==
    /\ result.op = "log"
    /\ result.ok
    /\ Last(sink).by = result.self
    /\ Cardinality(DOMAIN Last(sink).evt.tags) = 2
    /\ spans[result.self].tags = EmptyObj
    /\ ~spans[result.self].finished

\* C4: every span that exists has a span_id different from its parent_span_id.
C4_SpanNotOwnParent ==
    \A s \in Live : spans[s].span_id # spans[s].parent_span_id

\* C5 as claimed: serverRequest on the headers span A injected returns a span
\* on A's trace whose parent_span_id is A's span_id, and which is no creator.
C5_InjectedSpanBecomesParent ==
    [][ \A t \in TagsWire :
            (/\ hdrBy # 0
             /\ result'.op = "serverRequest"
             /\ ServerRequest(PropagatedOpts, t)) =>
                /\ result'.ok
                /\ spans'[result'.ret].trace_id = spans[hdrBy].trace_id
                /\ spans'[result'.ret].parent_span_id = spans[hdrBy].span_id
                /\ ~spans'[result'.ret].creator ]_vars

\* C5 amended: serverRequest on the headers span A injected returns a span
\* with A's trace_id, A's span_id as its own span_id, A's parent_span_id as
\* its parent_span_id, and creator false.
C5_RoundTripSameSpan ==
    [][ \A t \in TagsWire :
            (/\ hdrBy # 0
             /\ result'.op = "serverRequest"
             /\ ServerRequest(PropagatedOpts, t)) =>
                /\ result'.ok
                /\ spans'[result'.ret].trace_id = spans[hdrBy].trace_id
                /\ spans'[result'.ret].span_id = spans[hdrBy].span_id
                /\ spans'[result'.ret].parent_span_id = spans[hdrBy].parent_span_id
                /\ ~spans'[result'.ret].creator ]_vars

C5_Witness ==
    /\ result.op = "serverRequest"
    /\ result.ok
    /\ hdrBy # 0
    /\ hdrBy # result.ret
    /\ spans[hdrBy].creator
    /\ hdr = InjectedHeaders(spans[hdrBy], hdr)
    /\ spans[result.ret].span_id = spans[hdrBy].span_id
    /\ spans[result.ret].trace_id = spans[hdrBy].trace_id
    /\ ~spans[result.ret].creator

\* C6: serverRequest on well-formed x-span-id S1, x-parent-span-id P1 and
\* request id T1 returns a span with span_id S1, parent_span_id P1, trace_id
\* T1 and creator false; and no record emitted by a span that is not the
\* creator carries end.
C6_JoinedServerSpan ==
    [][ /\ \A o \in ServerOptsIn(hdr), t \in TagsWire :
            (/\ result'.op = "serverRequest"
             /\ Has(o, "logger")
             /\ AssertUuid(o.req.headers, "x-span-id")
             /\ AssertUuid(o.req.headers, "x-parent-span-id")
             /\ AssertUuid(o.req, "id")
             /\ ServerRequest(o, t)) =>
                /\ result'.ok
                /\ spans'[result'.ret].trace_id = o.req.id
                /\ spans'[result'.ret].span_id = o.req.headers["x-span-id"]
                /\ spans'[result'.ret].parent_span_id = o.req.headers["x-parent-span-id"]
                /\ ~spans'[result'.ret].creator
        /\ \A i \in DOMAIN sink' :
            ~spans'[sink'[i].by].creator => ~Has(sink'[i].evt, "end") ]_vars

C6_Witness ==
    /\ result.op = "serverResponse"
    /\ result.ok
    /\ spans[result.self].operation = "opS"
    /\ ~spans[result.self].creator
    /\ spans[result.self].finished
    /\ IsUuid(spans[result.self].parent_span_id)
    /\ spans[result.self].parent_span_id # spans[result.self].span_id
    /\ Last(sink).by = result.self
    /\ Last(sink).evt.kind = "server.response"
    /\ ~Has(Last(sink).evt, "end")

\* C7: startChild with a valid operation returns a span on the parent's
\* trace, whose parent_span_id is the parent's span_id, whose span_id is a
\* UUID no span held before (so not the parent's), and which is the creator.
C7_StartChild ==
    [][ \A s \in Live :
            (/\ result'.op = "startChild"
             /\ StartChild(s, [operation |-> "opB"])) =>
                /\ result'.ok
                /\ spans'[result'.ret].trace_id = spans[s].trace_id
                /\ spans'[result'.ret].parent_span_id = spans[s].span_id
                /\ spans'[result'.ret].span_id # spans[s].span_id
                /\ IsUuid(spans'[result'.ret].span_id)
                /\ \A q \in Live : spans'[result'.ret].span_id \notin
                        {spans[q].span_id, spans[q].parent_span_id, spans[q].trace_id}
                /\ spans'[result'.ret].creator ]_vars

C7_Witness ==
    /\ result.op = "startChild"
    /\ result.ok
    /\ ~spans[result.self].creator
    /\ spans[result.ret].creator
    /\ spans[result.ret].parent_span_id = spans[result.self].span_id
    /\ spans[result.ret].trace_id = spans[result.self].trace_id

\* C8 as claimed: every operation invoked on a finished span throws.
C8_ClosedRejectsEverything ==
    [][ (/\ result'.op \in {"addTags", "log", "startChild", "injectHeaders",
                            "clientRequest", "clientResponse", "serverResponse"}
         /\ result'.self # 0
         /\ spans[result'.self].finished)
        => ~result'.ok ]_vars

\* C8 amended: on a finished span addTags, log, clientResponse and
\* serverResponse throw; startChild, injectHeaders and clientRequest (with it
\* as the current span) return as on an open span, and none of the seven
\* changes the finished span.
C8_ClosedRejectsWritesOnly ==
    [][ (/\ result'.op \in {"addTags", "log", "startChild", "injectHeaders",
                            "clientRequest", "clientResponse", "serverResponse"}
         /\ result'.self # 0
         /\ spans[result'.self].finished)
        => /\ result'.ok <=> result'.op \in {"startChild", "injectHeaders", "clientRequest"}
           /\ spans'[result'.self] = spans[result'.self] ]_vars

C8_Witness ==
    /\ result.op = "clientRequest"
    /\ result.ok
    /\ result.self # 0
    /\ spans[result.self].finished
    /\ spans[result.ret].parent_span_id = spans[result.self].span_id
    /\ ~spans[result.ret].finished

\* C9: clientRequest with valid operation, headers, tags and logger returns,
\* with a null span as with a present one: a root span (fresh ids, parent "0",
\* creator) or the current span's child; the headers hold the returned span's
\* ids, exactly one record "client.request" with the given tags and no end is
\* emitted, and the returned span is open.
C9_ClientRequestNeverFails ==
    [][ \A cur \in {0} \cup Live, t \in TagsWire :
            (/\ result'.op = "clientRequest"
             /\ ClientRequest(cur, FullClientOpts, t)) =>
                /\ result'.ok
                /\ spans'[result'.ret].creator
                /\ ~spans'[result'.ret].finished
                /\ IF cur = 0
                   THEN /\ spans'[result'.ret].parent_span_id = Sentinel
                        /\ \A q \in Live : spans'[result'.ret].trace_id # spans[q].trace_id
                   ELSE /\ spans'[result'.ret].parent_span_id = spans[cur].span_id
                        /\ spans'[result'.ret].trace_id = spans[cur].trace_id
                /\ \A q \in Live : spans'[result'.ret].span_id # spans[q].span_id
                /\ hdr'["x-span-id"] = spans'[result'.ret].span_id
                /\ hdr'["x-parent-span-id"] = spans'[result'.ret].parent_span_id
                /\ hdr'["x-request-id"] = spans'[result'.ret].trace_id
                /\ Len(sink') = Len(sink) + 1
                /\ Last(sink').by = result'.ret
                /\ Last(sink').evt.kind = "client.request"
                /\ Last(sink').evt.tags = t
                /\ ~Has(Last(sink').evt, "end") ]_vars

\* C10: a response call on an open span returns, and leaves the span finished
\* exactly when continue is not set; a response call on a finished span
\* throws and changes nothing.
C10_ResponseCloses ==
    [][ \A s \in Live, o \in ResponseOptsIn, t \in TagsLife :
            (/\ result'.op \in {"clientResponse", "serverResponse"}
             /\ result'.self = s
             /\ (ClientResponse(s, o, t) \/ ServerResponse(s, o, t))) =>
                /\ result'.ok <=> ~spans[s].finished
                /\ result'.ok =>
                     (spans'[s].finished <=> ~(Has(o, "continue") /\ o.continue))
                /\ ~result'.ok => (spans' = spans /\ sink' = sink) ]_vars

C10_Witness ==
    /\ result.op = "serverResponse"
    /\ ~result.ok
    /\ spans[result.self].finished
    /\ Len(sink) = 2
    /\ \A i \in DOMAIN sink :
          sink[i].by = result.self /\ sink[i].evt.kind = "server.response"
    /\ ~Has(sink[1].evt, "end")
    /\ Has(sink[2].evt, "end")

\* C11 as claimed: joinSpan throws when trace_id is missing or malformed and
\* when span_id is present but malformed; with a well-formed trace_id, a
\* logger, an operation and span_id absent or well formed it returns a span
\* on that trace.
C11_JoinNeedsTraceOnly ==
    [][ result'.op = "joinSpan" => \A o \in SpanOptsAll :
            JoinSpan(o) =>
                /\ (~AssertUuid(o, "trace_id") \/ ~OptionalUuid(o, "span_id"))
                        => ~result'.ok
                /\ (/\ Has(o, "logger")
                    /\ Has(o, "operation")
                    /\ AssertUuid(o, "trace_id")
                    /\ OptionalUuid(o, "span_id"))
                        => (result'.ok /\ spans'[result'.ret].trace_id = o.trace_id) ]_vars

\* C11 amended: joinSpan throws when trace_id is missing or malformed, when
\* span_id is present but malformed, and when parent_span_id is missing or is
\* neither "0" nor well formed; with a well-formed trace_id, a parent_span_id
\* that is "0" or well formed, a logger, an operation and span_id absent or
\* well formed it returns a span on that trace.
C11_JoinNeedsTraceAndParent ==
    [][ result'.op = "joinSpan" => \A o \in SpanOptsAll :
            JoinSpan(o) =>
                /\ (\/ ~AssertUuid(o, "trace_id")
                    \/ ~OptionalUuid(o, "span_id")
                    \/ ~Has(o, "parent_span_id")
                    \/ ~(o.parent_span_id = Sentinel \/ IsUuid(o.parent_span_id)))
                        => (~result'.ok /\ spans' = spans)
                /\ (/\ Has(o, "logger")
                    /\ Has(o, "operation")
                    /\ AssertUuid(o, "trace_id")
                    /\ OptionalUuid(o, "span_id")
                    /\ Has(o, "parent_span_id")
                    /\ (o.parent_span_id = Sentinel \/ IsUuid(o.parent_span_id)))
                        => (result'.ok /\ spans'[result'.ret].trace_id = o.trace_id) ]_vars

C11_Witness ==
    /\ result.op = "joinSpan"
    /\ result.ok
    /\ spans[result.ret].creator
    /\ IsUuid(spans[result.ret].parent_span_id)
    /\ spans[result.ret].trace_id = NumExt

\* C14: newSpan on an operation and a logger, with no identifier supplied,
\* returns a span whose trace_id and span_id are UUIDs no span held before,
\* whose parent_span_id is "0", which is the creator, is not finished and has
\* no tags.
C14_NewSpanMakesRoot ==
    [][ (/\ result'.op = "newSpan"
         /\ NewSpan([logger |-> "log", operation |-> "opA"])) =>
            /\ result'.ok
            /\ IsUuid(spans'[result'.ret].trace_id)
            /\ IsUuid(spans'[result'.ret].span_id)
            /\ spans'[result'.ret].span_id # spans'[result'.ret].trace_id
            /\ \A q \in Live :
                  {spans'[result'.ret].span_id, spans'[result'.ret].trace_id}
                  \cap {spans[q].span_id, spans[q].trace_id, spans[q].parent_span_id} = {}
            /\ spans'[result'.ret].parent_span_id = Sentinel
            /\ spans'[result'.ret].creator
            /\ ~spans'[result'.ret].finished
            /\ spans'[result'.ret].tags = EmptyObj ]_vars

\* C12: among the records emitted, at most one per span_id carries end, and
\* the span that emitted it is the one instance that minted that span_id: it
\* is the creator, the span_id came from uuid.v4, and every other instance
\* with the same span_id was given it.
C12_SingleEnd ==
    \A i \in DOMAIN sink :
        Has(sink[i].evt, "end") =>
            /\ sink[i].evt.end = TRUE
            /\ sink[i].evt.span_id = spans[sink[i].by].span_id
            /\ spans[sink[i].by].creator
            /\ sink[i].evt.span_id \in {Mint(n) : n \in 1..minted}
            /\ \A q \in Live :
                  (q # sink[i].by /\ spans[q].span_id = sink[i].evt.span_id)
                      => ~spans[q].creator
            /\ \A j \in DOMAIN sink :
                  (Has(sink[j].evt, "end") /\ sink[j].evt.span_id = sink[i].evt.span_id)
                      => j = i

C12_Witness ==
    /\ Len(sink) = 2
    /\ Len(spans) = 2
    /\ spans[1].span_id = spans[2].span_id
    /\ spans[1].creator
    /\ ~spans[2].creator
    /\ spans[1].finished
    /\ sink[1].by = 2
    /\ sink[1].evt.kind = "server.request"
    /\ ~Has(sink[1].evt, "end")
    /\ sink[2].by = 1
    /\ sink[2].evt.kind = "client.response"
    /\ Has(sink[2].evt, "end")
    /\ sink[2].evt.span_id = sink[1].evt.span_id

\* C13: in one trace every span has the root's trace_id, every record emitted
\* carries it, and no step changes the trace_id of a span that exists.
C13_TraceContinuity ==
    [][ /\ \A s \in Live : spans'[s].trace_id = spans[s].trace_id
        /\ \A s \in DOMAIN spans' : spans'[s].trace_id = spans'[1].trace_id
        /\ \A i \in DOMAIN sink' :
              /\ sink'[i].evt.trace_id = spans'[1].trace_id
              /\ IsUuid(sink'[i].evt.trace_id) ]_vars

C13_Witness ==
    /\ Len(spans) = 2
    /\ spans[1].creator
    /\ spans[2].operation = "opS"
    /\ ~spans[2].creator
    /\ hdrBy = 1
    /\ spans[2].trace_id = spans[1].trace_id
    /\ Len(sink) = 2
    /\ sink[1].by = 1
    /\ sink[2].by = 2
    /\ sink[2].evt.kind = "server.request"
    /\ sink[2].evt.trace_id = sink[1].evt.trace_id

\* C15: a finished span stays finished, and from then on no step changes
\* its tags or identifiers or appends a record emitted by it; addTags, log,
\* clientResponse and serverResponse on it throw.
C15_FinishedFreezes ==
    [][ \A s \in Live :
            spans[s].finished =>
                /\ spans'[s].finished
                /\ spans'[s] = spans[s]
                /\ SubSeq(sink', 1, Len(sink)) = sink
                /\ \A i \in DOMAIN sink' \ DOMAIN sink : sink'[i].by # s
                /\ (/\ result'.self = s
                    /\ result'.op \in {"addTags", "log", "clientResponse", "serverResponse"})
                        => ~result'.ok ]_vars

C15_Witness ==
    /\ result.op = "addTags"
    /\ ~result.ok
    /\ spans[result.self].finished
    /\ spans[result.self].creator
    /\ spans[result.self].tags = EmptyObj
    /\ Len(sink) = 2
    /\ \A i \in DOMAIN sink : sink[i].by = result.self
    /\ ~Has(sink[1].evt, "end")
    /\ sink[2].evt.kind = "client.response"
    /\ Has(sink[2].evt, "end")

\* C16: addTags adds its keys to the span's pending tags, the value given
\* last replacing an earlier one, and emits nothing; the record a log call
\* emits carries exactly the tags pending at the call (for clientResponse:
\* those and the ones it is given) and leaves none pending, so a tag is in the
\* next record only; no step emits a record otherwise, and tags still pending
\* are in no record.
C16_TagsReportedOnce ==
    [][ /\ \A s \in Live, t \in TagsRich :
              (result'.op = "addTags" /\ result'.ok /\ AddTags(s, t)) =>
                  /\ DOMAIN spans'[s].tags = DOMAIN spans[s].tags \cup DOMAIN t
                  /\ \A k \in DOMAIN t : spans'[s].tags[k] = t[k]
                  /\ \A k \in DOMAIN spans[s].tags \ DOMAIN t :
                        spans'[s].tags[k] = spans[s].tags[k]
                  /\ sink' = sink
        /\ \A s \in Live :
              (result'.op = "log" /\ result'.ok /\ result'.self = s) =>
                  /\ Len(sink') = Len(sink) + 1
                  /\ Last(sink').by = s
                  /\ Last(sink').evt.tags = spans[s].tags
                  /\ spans'[s].tags = EmptyObj
        /\ \A s \in Live, o \in ResponseOptsIn, t \in TagsRich :
              (result'.op = "clientResponse" /\ result'.ok /\ ClientResponse(s, o, t)) =>
                  /\ Len(sink') = Len(sink) + 1
                  /\ Last(sink').by = s
                  /\ DOMAIN Last(sink').evt.tags = DOMAIN spans[s].tags \cup DOMAIN t
                  /\ \A k \in DOMAIN t : Last(sink').evt.tags[k] = t[k]
                  /\ \A k \in DOMAIN spans[s].tags \ DOMAIN t :
                        Last(sink').evt.tags[k] = spans[s].tags[k]
                  /\ spans'[s].tags = EmptyObj
        /\ (~result'.ok \/ result'.op \notin {"log", "clientResponse"}) => sink' = sink
        /\ SubSeq(sink', 1, Len(sink)) = sink ]_vars

C16_Witness ==
    /\ result.op = "addTags"
    /\ result.ok
    /\ Len(sink) = 2
    /\ \A i \in DOMAIN sink : sink[i].by = result.self
    /\ sink[1].evt.tags = [k1 |-> 2, k2 |-> 1]
    /\ sink[2].evt.tags = EmptyObj
    /\ spans[result.self].tags = [k1 |-> 1]

\* C17: serverRequest on a request with a well-formed request id, and with
\* x-span-id and x-parent-span-id each absent or well formed, returns a span
\* whose parent_span_id is the header or "0" when absent, whose span_id is the
\* header or a fresh UUID when absent, which is the creator exactly when
\* x-span-id is absent, whose trace_id is the request id, and emits exactly
\* one record, "server.request" without end, leaving the span open; the
\* terminal server.response record of a span carries end exactly when the
\* span is the creator.
C17_ServerRequestDefaults ==
    [][ /\ result'.op = "serverRequest" =>
              \A o \in ServerOptsIn(hdr), t \in TagsWire :
                (/\ Has(o, "logger")
                 /\ AssertUuid(o.req, "id")
                 /\ OptionalUuid(o.req.headers, "x-span-id")
                 /\ Has(o.req.headers, "x-parent-span-id") =>
                        (\/ o.req.headers["x-parent-span-id"] = Sentinel
                         \/ IsUuid(o.req.headers["x-parent-span-id"]))
                 /\ ServerRequest(o, t)) =>
                    /\ result'.ok
                    /\ spans'[result'.ret].parent_span_id =
                          (IF Has(o.req.headers, "x-parent-span-id")
                           THEN o.req.headers["x-parent-span-id"] ELSE Sentinel)
                    /\ spans'[result'.ret].creator <=> ~Has(o.req.headers, "x-span-id")
                    /\ IF Has(o.req.headers, "x-span-id")
                       THEN spans'[result'.ret].span_id = o.req.headers["x-span-id"]
                       ELSE /\ IsUuid(spans'[result'.ret].span_id)
                            /\ spans'[result'.ret].span_id > NumExt + minted
                            /\ \A q \in Live :
                                  spans'[result'.ret].span_id # spans[q].span_id
                    /\ spans'[result'.ret].trace_id = o.req.id
                    /\ ~spans'[result'.ret].finished
                    /\ Len(sink') = Len(sink) + 1
                    /\ Last(sink').by = result'.ret
                    /\ Last(sink').evt.kind = "server.request"
                    /\ Last(sink').evt.tags = t
                    /\ ~Has(Last(sink').evt, "end")
        /\ (result'.op = "serverResponse" /\ result'.ok) =>
              /\ Last(sink').by = result'.self
              /\ Last(sink').evt.kind = "server.response"
              /\ spans'[result'.self].finished
              /\ Has(Last(sink').evt, "end") <=> spans[result'.self].creator ]_vars

C17_Witness ==
    /\ result.op = "serverResponse"
    /\ result.ok
    /\ spans[result.self].operation = "opS"
    /\ spans[result.self].creator
    /\ spans[result.self].parent_span_id = Sentinel
    /\ spans[result.self].trace_id \in ExtUuids
    /\ Len(sink) = 2
    /\ \A i \in DOMAIN sink : sink[i].by = result.self
    /\ sink[1].evt.kind = "server.request"
    /\ ~Has(sink[1].evt, "end")
    /\ sink[2].evt.kind = "server.response"
    /\ Has(sink[2].evt, "end")

\* C18: injectHeaders returns, after it the header mapping has the keys it
\* had and x-span-id, x-parent-span-id, x-request-id; these three hold the
\* span's span_id, parent_span_id and trace_id whatever they held before,
\* every other entry is as it was, no span has changed and no record was
\* emitted.
C18_InjectHeadersFrame ==
    [][ result'.op = "injectHeaders" =>
            /\ result'.ok
            /\ DOMAIN hdr' = DOMAIN hdr \cup {"x-span-id", "x-parent-span-id", "x-request-id"}
            /\ hdr'["x-span-id"] = spans[result'.self].span_id
            /\ hdr'["x-parent-span-id"] = spans[result'.self].parent_span_id
            /\ hdr'["x-request-id"] = spans[result'.self].trace_id
            /\ \A k \in DOMAIN hdr \ {"x-span-id", "x-parent-span-id", "x-request-id"} :
                  hdr'[k] = hdr[k]
            /\ spans' = spans
            /\ sink' = sink
            /\ minted' = minted ]_vars

C18_Witness ==
    /\ result.op = "injectHeaders"
    /\ result.ok
    /\ Has(hdr, "accept")
    /\ hdr["accept"] = "json"
    /\ hdr["x-span-id"] = spans[result.self].span_id
    /\ hdr["x-span-id"] # 1
    /\ hdr["x-parent-span-id"] = spans[result.self].parent_span_id
    /\ hdr["x-request-id"] = spans[result.self].trace_id
    /\ spans[result.self].finished

\* C19: no step changes a record that was handed to the logger, and after a
\* log call returns the span's tags are bound to another object than the one
\* in the record it emitted.
C19_EmittedRecordFixed ==
    [][ /\ \A i \in DOMAIN sink : sink'[i] = sink[i]
        /\ \A i \in DOMAIN sink' :
              sink'[i].obj # spans'[sink'[i].by].tagsObj ]_vars

C19_Witness ==
    /\ result.op = "addTags"
    /\ result.ok
    /\ Len(sink) = 2
    /\ \A i \in DOMAIN sink : sink[i].by = result.self
    /\ sink[1].evt.tags = [k1 |-> 1]
    /\ sink[2].evt.tags = EmptyObj
    /\ spans[result.self].tags = [k1 |-> 2, k2 |-> 1]

\* C20: the underlying read of a wrapped call is invoked only after the
\* record "client.request" of the call's span, a new child of the trace
\* handle, was emitted; the caller's callback runs only after the terminal
\* record "client.response" of that span was emitted, and runs once; when the
\* client calls the wrapper's callback on a call whose span is finished,
\* clientResponse throws, no record is emitted and the caller's callback is
\* not reached.
C20_TracedReadOrder ==
    [][ \A r \in DOMAIN reads :
          /\ (reads[r].pc = "read" /\ reads'[r].pc = "pending") =>
                /\ spans[reads[r].span].creator
                /\ spans[reads[r].span].parent_span_id = spans[reads[r].handle].span_id
                /\ spans[reads[r].span].trace_id = spans[reads[r].handle].trace_id
                /\ Cardinality({i \in DOMAIN sink :
                        /\ sink[i].by = reads[r].span
                        /\ sink[i].evt.kind = "client.request"
                        /\ ~Has(sink[i].evt, "end")}) = 1
          /\ reads'[r].cbs > reads[r].cbs =>
                /\ reads[r].cbs = 0
                /\ spans[reads[r].span].finished
                /\ Cardinality({i \in DOMAIN sink :
                        /\ sink[i].by = reads[r].span
                        /\ sink[i].evt.kind = "client.response"
                        /\ Has(sink[i].evt, "end")}) = 1
          /\ (/\ reads[r].pc = "pending"
              /\ spans[reads[r].span].finished
              /\ result'.op = "clientResponse"
              /\ result'.self = reads[r].span) =>
                /\ ~result'.ok
                /\ sink' = sink
                /\ spans' = spans
                /\ reads' = reads ]_vars

C20_Witness ==
    /\ result.op = "clientResponse"
    /\ ~result.ok
    /\ \E r \in DOMAIN reads :
          /\ reads[r].span = result.self
          /\ reads[r].pc = "pending"
          /\ reads[r].cbs = 1
          /\ spans[reads[r].span].finished
    /\ Len(sink) = 2
    /\ sink[1].evt.kind = "client.request"
    /\ sink[2].evt.kind = "client.response"
    /\ Has(sink[2].evt, "end")
    /\ sink[1].by = result.self
    /\ sink[2].by = result.self

====
